---- MODULE Spec2Model ----
(***************************************************************************)
(* Model of the market-research survey application: the form allocator,    *)
(* the submission store and the session state machine that drives them     *)
(* (src/database.py, src/app.py, src/forms_config.py).                     *)
(*                                                                         *)
(* The store is PostgreSQL reached through psycopg2 with the default       *)
(* (non-autocommit) connection mode used by get_connection:                *)
(*   - the statements of one `with get_connection()` block form one        *)
(*     transaction; its writes are pending until conn.commit();            *)
(*   - isolation is READ COMMITTED: a SELECT sees the committed tables     *)
(*     (plus the transaction's own pending writes); an UPDATE of a row     *)
(*     that another open transaction has written waits for that            *)
(*     transaction to end and then works on the latest committed version;  *)
(*     INSERT .. ON CONFLICT DO NOTHING waits for an in-flight insert of   *)
(*     the same key;                                                       *)
(*   - a statement that raises a database error leaves the transaction     *)
(*     aborted: conn.commit() on an aborted transaction sends COMMIT, the  *)
(*     server answers ROLLBACK and psycopg2 raises nothing;                *)
(*   - a lost connection makes every later call on it, commit and          *)
(*     rollback included, raise; a commit that raises has taken no effect  *)
(*     on the server;                                                      *)
(*   - the read functions take connections of their own; each of their     *)
(*     queries sees the committed tables.  A run of the results page is    *)
(*     one step of the model.                                              *)
(***************************************************************************)
EXTENDS Integers, Sequences, FiniteSets, TLC

(* ----- bounds of the model ----- *)
NumProcs == 2
MaxClock == 2
MaxSubs == 2
MaxFailures == 1
MaxRows == 4
NumRotations == 2

(* ----- program constants ----- *)
NumForms == 6
maxconn == 10
NULL == 0 - 1
None == 0
Epoch == 0

Forms == 1..NumForms
Procs == 1..NumProcs

FORMS == <<
  <<"Philanthrifind", "Give-io", "Donathropy", "Kinderfully">>,
  <<"Philanthrifound", "Causenex", "Givanthropy", "Tomatchin">>,
  <<"Philanthri", "Give Connects", "Donanthropy", "Humanitable">>,
  <<"Givio Gives", "Philanthrifound", "Givanthropy", "Humanitable">>,
  <<"Give Connects", "Philanthrifind", "Give-io", "Tomatchin">>,
  <<"Philanthri", "Givio Gives", "Kinderfully", "Causenex">> >>

QUESTIONS == <<"q1", "q2", "q3", "q4", "q5">>

get_form_names(form_id) == FORMS[form_id]

QuestionIds == {QUESTIONS[i] : i \in 1..Len(QUESTIONS)}

(* The radio selections a respondent may submit for a form: every question *)
(* answered (q1 with the form's second name, the others with its first),   *)
(* q3 left unanswered (the radio's index=None, shown here as ""), or q1    *)
(* and q5 left unanswered.                                                 *)
AnswerInputs(form_id) ==
  LET n == get_form_names(form_id) IN
  { [q \in QuestionIds |-> IF q = "q1" THEN n[2] ELSE n[1]],
    [q \in QuestionIds |-> IF q = "q3" THEN "" ELSE n[1]],
    [q \in QuestionIds |-> IF q \in {"q1", "q5"} THEN "" ELSE n[3]] }

(* ----- state ----- *)
VARIABLES
  form_counters,      \* committed table: form_id -> [submission_count, last_assigned]
  submissions,        \* committed table: set of rows [id, form_id, session_id, answers]
  next_id,            \* the SERIAL sequence of submissions.id (not transactional)
  clock,              \* the server clock read by NOW()
  pc,                 \* per session: position in the running handler
  txn,                \* per session: "ok" | "aborted" | "broken"
  now,                \* per session: NOW() of the open transaction
  form_id,            \* per session: form_id local / argument of the running call
  init_i,             \* per session: loop variable of the lazy initialisation
  wcount,             \* per session: pending form_counters writes (row locks held)
  wsubs,              \* per session: pending submissions inserts
  current_form_id,    \* st.session_state.current_form_id
  submission_success, \* st.session_state.submission_success
  session_id,         \* st.session_state.session_id
  radio,              \* st.session_state["question_<id>"]: the radio selections
  unanswered,         \* the list display_survey last reported as missing
  outcome,            \* how the session's last database call ended
  stats,              \* display_results_page: the map get_form_statistics returned
  rankings,           \* display_results_page: the map get_question_rankings returned
  checked_out,        \* the pool: number of connections handed out and not put back
  others,             \* connections held by callers outside Procs
  assigned,           \* history: form ids returned by get_least_submitted_form, in order
  true_saves,         \* history: per form, save_submission calls that returned True
  failures            \* number of storage failures injected so far

vars == << form_counters, submissions, next_id, clock, pc, txn, now,
           form_id, init_i, wcount, wsubs, current_form_id, submission_success,
           session_id, radio, unanswered, outcome, stats, rankings, checked_out,
           others, assigned,
           true_saves, failures >>

dbvars == << form_counters, submissions >>
sessvars == << current_form_id, submission_success, session_id, radio, unanswered >>
poolvars == << checked_out, others >>

NoAnswers == [q \in QuestionIds |-> ""]
EmptyTable == [f \in {} |-> 0]

(* ----- the tables ----- *)
NewCounterRow == [submission_count |-> 0, last_assigned |-> NULL]

(* What a statement of session p reads: committed rows overlaid with p's   *)
(* own pending writes.                                                     *)
Visible(p) ==
  [f \in (DOMAIN form_counters) \cup (DOMAIN wcount[p]) |->
     IF f \in DOMAIN wcount[p] THEN wcount[p][f] ELSE form_counters[f]]

(* Row f is write-locked by an open transaction other than p's.            *)
LockedByOther(p, f) == \E q \in Procs \ {p} : f \in DOMAIN wcount[q]

(* ORDER BY last_assigned ASC without the COALESCE: NULLs sort last.        *)
Coalesce_NullsLast(v, d) == IF v = NULL THEN MaxClock + 2 ELSE v
Coalesce(v, d) == IF v = NULL THEN d ELSE v

(* ORDER BY submission_count ASC, COALESCE(last_assigned, '1970-01-01') ASC *)
OrderKeyLE(r1, r2) ==
  \/ r1.submission_count < r2.submission_count
  \/ /\ r1.submission_count = r2.submission_count
     /\ Coalesce(r1.last_assigned, Epoch) <= Coalesce(r2.last_assigned, Epoch)

(* The rows that ORDER BY .. LIMIT 1 may return: the order of rows equal   *)
(* under the sort key is not determined by the query.                      *)
LeastSubmitted(tbl) ==
  {f \in DOMAIN tbl : \A g \in DOMAIN tbl : OrderKeyLE(tbl[f], tbl[g])}

(* INSERT INTO form_counters VALUES (f, 0, NULL) ON CONFLICT DO NOTHING    *)
InsertWaits(p, f) == f \notin DOMAIN form_counters /\ LockedByOther(p, f)
(* INSERT .. ON CONFLICT (form_id) DO UPDATE: an existing row is replaced.  *)
InsertCounterRow_Upsert(p, f) == (f :> NewCounterRow) @@ wcount[p]
InsertCounterRow(p, f) ==
  IF f \in DOMAIN Visible(p) THEN wcount[p]
  ELSE (f :> NewCounterRow) @@ wcount[p]

(* UPDATE .. SET last_assigned = NOW(), submission_count =                 *)
(* submission_count + 1: the assignment counted as a submission.           *)
SetLastAssigned_Counting(row, t) ==
  [submission_count |-> row.submission_count + 1, last_assigned |-> t]
(* UPDATE form_counters SET last_assigned = NOW() WHERE form_id = f        *)
SetLastAssigned(row, t) == [row EXCEPT !.last_assigned = t]

(* An UPDATE that matches no row leaves the count as it was.               *)
Increment_NoRowMatched(row) == row
(* UPDATE form_counters SET submission_count = submission_count + 1        *)
Increment(row) == [row EXCEPT !.submission_count = @ + 1]

(* conn.commit(): the pending writes of an intact transaction become       *)
(* visible in one step; an aborted one is rolled back by the server.       *)
CommittedCounters(p) ==
  IF txn[p] = "ok"
  THEN [f \in (DOMAIN form_counters) \cup (DOMAIN wcount[p]) |->
          IF f \in DOMAIN wcount[p] THEN wcount[p][f] ELSE form_counters[f]]
  ELSE form_counters
(* A commit that takes effect whatever became of the transaction.           *)
CommittedSubmissions_Regardless(p) == submissions \cup wsubs[p]
CommittedSubmissions(p) ==
  IF txn[p] = "ok" THEN submissions \cup wsubs[p] ELSE submissions

RowsOf(f) == {s \in submissions : s.form_id = f}
CountOf(f) == IF f \in DOMAIN form_counters THEN form_counters[f].submission_count ELSE 0

(* ----- the connection pool (psycopg2 SimpleConnectionPool) ----- *)
(* getconn() raises PoolError("connection pool exhausted") when maxconn    *)
(* connections are handed out; it never waits.                             *)
PoolExhausted == checked_out >= maxconn
getconn(n) == n + 1
(* A putconn that is skipped: the connection stays handed out.             *)
putconn_Skipped(n) == n
putconn(n) == n - 1

(* ----- initial state: the tables exist and are empty, no session has a form ----- *)
Init ==
  /\ form_counters = EmptyTable
  /\ submissions = {}
  /\ next_id = 1
  /\ clock = 1
  /\ pc = [p \in Procs |-> "idle"]
  /\ txn = [p \in Procs |-> "ok"]
  /\ now = [p \in Procs |-> Epoch]
  /\ form_id = [p \in Procs |-> None]
  /\ init_i = [p \in Procs |-> 1]
  /\ wcount = [p \in Procs |-> EmptyTable]
  /\ wsubs = [p \in Procs |-> {}]
  /\ current_form_id = [p \in Procs |-> None]
  /\ submission_success = [p \in Procs |-> FALSE]
  /\ session_id = [p \in Procs |-> p]
  /\ radio = [p \in Procs |-> NoAnswers]
  /\ unanswered = [p \in Procs |-> << >>]
  /\ outcome = [p \in Procs |-> "none"]
  /\ stats = EmptyTable
  /\ rankings = EmptyTable
  /\ checked_out = 0
  /\ others = 0
  /\ assigned = << >>
  /\ true_saves = [f \in Forms |-> 0]
  /\ failures = 0

Quiet == \A p \in Procs : pc[p] = "idle"

(* stats and rankings are locals of display_results_page: they hold the    *)
(* maps of a results page run for the one state that follows it, and are   *)
(* gone when any other handler takes a step.                               *)
PageOver == stats' = EmptyTable /\ rankings' = EmptyTable

(* init_database_tables: run by the operator before the application; it    *)
(* fills form_counters with forms 1..6 when the table is empty.            *)
init_database_tables ==
  /\ Quiet
  /\ DOMAIN form_counters = {}
  /\ form_counters' = [f \in Forms |-> NewCounterRow]
  /\ UNCHANGED poolvars
  /\ PageOver
  /\ UNCHANGED << submissions, next_id, clock, pc, txn, now, form_id, init_i,
                  wcount, wsubs, sessvars, outcome, assigned, true_saves, failures >>

(* ----- load_new_form / get_least_submitted_form ----- *)
(* What load_new_form does with a returned form id.                        *)
FormLoaded(p, f) ==
  /\ current_form_id' = [current_form_id EXCEPT ![p] = f]
  /\ submission_success' = [submission_success EXCEPT ![p] = FALSE]
  /\ radio' = [radio EXCEPT ![p] = NoAnswers]
  /\ unanswered' = [unanswered EXCEPT ![p] = << >>]
  /\ outcome' = [outcome EXCEPT ![p] = "returned"]
  /\ assigned' = Append(assigned, f)
  /\ UNCHANGED session_id

(* What load_new_form does when the call raises: st.error, return False.   *)
FormNotLoaded(p) ==
  /\ outcome' = [outcome EXCEPT ![p] = "raised"]
  /\ UNCHANGED << sessvars, assigned >>

(* main(): the Begin button is offered while no form is loaded or after a  *)
(* successful submission.                                                  *)
BeginOffered(p) ==
  /\ pc[p] = "idle"
  /\ current_form_id[p] = None \/ submission_success[p]

(* Begin is pressed: load_new_form enters get_least_submitted_form, which  *)
(* takes a connection and runs its two SELECTs.  The first (form_id,       *)
(* submission_count ORDER BY form_id) is only printed; it opens the        *)
(* transaction and fixes its NOW().  The second is ORDER BY .. LIMIT 1;    *)
(* result = cur.fetchone().                                                *)
get_least_submitted_form(p) ==
  /\ BeginOffered(p)
  /\ clock <= MaxClock
  /\ now' = [now EXCEPT ![p] = clock]
  /\ clock' = clock + 1
  /\ txn' = [txn EXCEPT ![p] = "ok"]
  /\ outcome' = [outcome EXCEPT ![p] = "none"]
  /\ IF DOMAIN Visible(p) # {}
     THEN /\ \E f \in LeastSubmitted(Visible(p)) :
                form_id' = [form_id EXCEPT ![p] = f]
          /\ pc' = [pc EXCEPT ![p] = "gl_update"]
          /\ UNCHANGED init_i
     ELSE /\ pc' = [pc EXCEPT ![p] = "gl_init"]
          /\ init_i' = [init_i EXCEPT ![p] = 1]
          /\ UNCHANGED form_id
  /\ ~ PoolExhausted
  /\ checked_out' = getconn(checked_out)
  /\ UNCHANGED others
  /\ PageOver
  /\ UNCHANGED << dbvars, next_id, wcount, wsubs, sessvars, assigned, true_saves,
                  failures >>

(* UPDATE form_counters SET last_assigned = NOW() WHERE form_id = %s       *)
get_least_update(p) ==
  /\ pc[p] = "gl_update"
  /\ ~ LockedByOther(p, form_id[p])
  /\ wcount' = [wcount EXCEPT ![p] =
                  (form_id[p] :> SetLastAssigned(Visible(p)[form_id[p]], now[p])) @@ @]
  /\ pc' = [pc EXCEPT ![p] = "gl_commit"]
  /\ UNCHANGED poolvars
  /\ PageOver
  /\ UNCHANGED << dbvars, next_id, clock, txn, now, form_id, init_i, wsubs,
                  sessvars, outcome, assigned, true_saves, failures >>

(* conn.commit(); return form_id -- then load_new_form stores the form.    *)
get_least_commit(p) ==
  /\ pc[p] = "gl_commit"
  /\ form_counters' = CommittedCounters(p)
  /\ wcount' = [wcount EXCEPT ![p] = EmptyTable]
  /\ FormLoaded(p, form_id[p])
  /\ pc' = [pc EXCEPT ![p] = "idle"]
  /\ checked_out' = putconn(checked_out)
  /\ UNCHANGED others
  /\ PageOver
  /\ UNCHANGED << submissions, next_id, clock, txn, now, form_id, init_i, wsubs,
                  true_saves, failures >>

(* Taking the connection, a statement or the commit of the found-a-row     *)
(* path raises (database error or lost connection): the exception leaves   *)
(* the function, get_connection rolls back and returns the connection,     *)
(* load_new_form reports the error.                                        *)
get_least_raise(p) ==
  /\ BeginOffered(p) \/ pc[p] \in {"gl_update", "gl_commit"}
  /\ failures < MaxFailures
  /\ failures' = failures + 1
  /\ wcount' = [wcount EXCEPT ![p] = EmptyTable]
  /\ FormNotLoaded(p)
  /\ pc' = [pc EXCEPT ![p] = "idle"]
  /\ checked_out' = IF pc[p] = "idle" THEN putconn(getconn(checked_out))
                                      ELSE putconn(checked_out)
  /\ UNCHANGED others
  /\ PageOver
  /\ UNCHANGED << dbvars, next_id, clock, txn, now, form_id, init_i, wsubs,
                  true_saves >>

(* for form_id in range(1, 7): INSERT .. ON CONFLICT (form_id) DO NOTHING  *)
get_least_init_insert(p) ==
  /\ pc[p] = "gl_init"
  /\ ~ InsertWaits(p, init_i[p])
  /\ wcount' = [wcount EXCEPT ![p] = InsertCounterRow(p, init_i[p])]
  /\ init_i' = [init_i EXCEPT ![p] = @ + 1]
  /\ pc' = [pc EXCEPT ![p] = IF init_i[p] = NumForms THEN "gl_init_commit" ELSE "gl_init"]
  /\ UNCHANGED poolvars
  /\ PageOver
  /\ UNCHANGED << dbvars, next_id, clock, txn, now, form_id, wsubs, sessvars,
                  outcome, assigned, true_saves, failures >>

(* conn.commit(); return 1                                                 *)
get_least_init_commit(p) ==
  /\ pc[p] = "gl_init_commit"
  /\ form_counters' = CommittedCounters(p)
  /\ wcount' = [wcount EXCEPT ![p] = EmptyTable]
  /\ FormLoaded(p, 1)
  /\ pc' = [pc EXCEPT ![p] = "idle"]
  /\ checked_out' = putconn(checked_out)
  /\ UNCHANGED others
  /\ PageOver
  /\ UNCHANGED << submissions, next_id, clock, txn, now, form_id, init_i, wsubs,
                  true_saves, failures >>

(* An INSERT of the lazy initialisation, or its commit, raises and         *)
(* `except Exception: return 1` runs; leaving the `with` block then calls  *)
(* conn.commit().  After a database error (how = "aborted") that commit    *)
(* rolls the transaction back silently and 1 is returned; after a lost     *)
(* connection (how = "broken") it raises and the call ends with that       *)
(* exception.  The commit itself fails only by losing the connection.      *)
get_least_init_except(p) ==
  /\ pc[p] \in {"gl_init", "gl_init_commit"}
  /\ failures < MaxFailures
  /\ failures' = failures + 1
  /\ wcount' = [wcount EXCEPT ![p] = EmptyTable]
  /\ pc' = [pc EXCEPT ![p] = "idle"]
  /\ \E how \in (IF pc[p] = "gl_init" THEN {"aborted", "broken"} ELSE {"broken"}) :
       IF how = "broken" THEN FormNotLoaded(p) ELSE FormLoaded(p, 1)
  /\ checked_out' = putconn(checked_out)
  /\ UNCHANGED others
  /\ PageOver
  /\ UNCHANGED << dbvars, next_id, clock, txn, now, form_id, init_i, wsubs,
                  true_saves >>

(* ----- display_survey / save_submission ----- *)
(* unanswered = [i+1 for i, (q_id, answer) in enumerate(answers.items())   *)
(*               if not answer]                                            *)
RECURSIVE UnansweredFrom(_, _)
UnansweredFrom(answers, i) ==
  IF i > Len(QUESTIONS) THEN << >>
  ELSE IF answers[QUESTIONS[i]] = ""
       THEN << i >> \o UnansweredFrom(answers, i + 1)
       ELSE UnansweredFrom(answers, i + 1)
(* The list without the i+1: positions counted from 0.                     *)
Unanswered_ZeroIndexed(answers) ==
  [k \in 1..Len(UnansweredFrom(answers, 1)) |-> UnansweredFrom(answers, 1)[k] - 1]
Unanswered(answers) == UnansweredFrom(answers, 1)

(* main(): the survey is displayed while a form is loaded and not yet      *)
(* submitted.                                                              *)
SurveyDisplayed(p) ==
  /\ pc[p] = "idle"
  /\ current_form_id[p] # None
  /\ ~ submission_success[p]

(* The row of INSERT INTO submissions (.., NOW(), answers..).              *)
SubmissionRow(p, f, answers) ==
  [id |-> next_id, form_id |-> f, session_id |-> session_id[p], answers |-> answers]

(* The INSERT on a connection in autocommit mode: visible at once.         *)
InsertSubmission_Autocommit(p, row) ==
  [pending |-> wsubs[p], committed |-> submissions \cup {row}]
(* The effect of the INSERT on session p's pending rows and on the         *)
(* committed table: the row stays pending until the commit.                *)
InsertSubmission(p, row) ==
  [pending |-> wsubs[p] \cup {row}, committed |-> submissions]

(* st.form("survey_form", clear_on_submit=True): the widgets are reset by   *)
(* every submit.                                                           *)
FormWidgets_ClearOnSubmit(answers) == NoAnswers
(* with st.form("survey_form"): the keyed radio widgets keep the submitted *)
(* selections in st.session_state across the reruns of the script.         *)
FormWidgets(answers) == answers

(* The respondent sets the radios and presses Submit Survey.  A submit     *)
(* with a missing answer is reported; a complete one calls                 *)
(* save_submission, which takes a connection and runs the INSERT INTO      *)
(* submissions.                                                            *)
display_survey_submit(p) ==
  /\ SurveyDisplayed(p)
  /\ \E answers \in AnswerInputs(current_form_id[p]) :
       /\ radio' = [radio EXCEPT ![p] = FormWidgets(answers)]
       /\ unanswered' = [unanswered EXCEPT ![p] = Unanswered(answers)]
       /\ IF Unanswered(answers) = << >>
          THEN LET ins == InsertSubmission(p, SubmissionRow(p, current_form_id[p], answers)) IN
               /\ next_id <= MaxSubs
               /\ ~ PoolExhausted
               /\ checked_out' = getconn(checked_out)
               /\ form_id' = [form_id EXCEPT ![p] = current_form_id[p]]
               /\ wsubs' = [wsubs EXCEPT ![p] = ins.pending]
               /\ submissions' = ins.committed
               /\ next_id' = next_id + 1
               /\ txn' = [txn EXCEPT ![p] = "ok"]
               /\ outcome' = [outcome EXCEPT ![p] = "none"]
               /\ pc' = [pc EXCEPT ![p] = "sv_ensure"]
          ELSE UNCHANGED << pc, txn, form_id, outcome, wsubs, submissions, next_id,
                            checked_out >>
  /\ UNCHANGED others
  /\ PageOver
  /\ UNCHANGED << form_counters, clock, now, init_i, wcount, current_form_id,
                  submission_success, session_id, assigned, true_saves, failures >>

(* A complete submit whose connection or INSERT INTO submissions raises:   *)
(* get_connection rolls back, the outer `except Exception` returns False   *)
(* and display_survey reports the failure.                                 *)
save_submission_raise(p) ==
  /\ SurveyDisplayed(p)
  /\ failures < MaxFailures
  /\ failures' = failures + 1
  /\ \E answers \in AnswerInputs(current_form_id[p]) :
       /\ Unanswered(answers) = << >>
       /\ radio' = [radio EXCEPT ![p] = FormWidgets(answers)]
  /\ unanswered' = [unanswered EXCEPT ![p] = << >>]
  /\ outcome' = [outcome EXCEPT ![p] = "False"]
  /\ checked_out' = putconn(getconn(checked_out))
  /\ UNCHANGED others
  /\ PageOver
  /\ UNCHANGED << dbvars, next_id, clock, pc, txn, now, form_id, init_i, wcount,
                  wsubs, current_form_id, submission_success, session_id, assigned,
                  true_saves >>

(* INSERT INTO form_counters .. VALUES (%s, 0, NULL) ON CONFLICT DO NOTHING *)
save_submission_ensure(p) ==
  /\ pc[p] = "sv_ensure"
  /\ ~ InsertWaits(p, form_id[p])
  /\ wcount' = [wcount EXCEPT ![p] = InsertCounterRow(p, form_id[p])]
  /\ pc' = [pc EXCEPT ![p] = "sv_update"]
  /\ UNCHANGED poolvars
  /\ PageOver
  /\ UNCHANGED << dbvars, next_id, clock, txn, now, form_id, init_i, wsubs,
                  sessvars, outcome, assigned, true_saves, failures >>

(* UPDATE form_counters SET submission_count = submission_count + 1        *)
(* WHERE form_id = %s; when a row was updated, the SELECT of the new count *)
(* that is only printed.                                                   *)
save_submission_update(p) ==
  /\ pc[p] = "sv_update"
  /\ ~ LockedByOther(p, form_id[p])
  /\ IF form_id[p] \in DOMAIN Visible(p)
     THEN wcount' = [wcount EXCEPT ![p] =
                       (form_id[p] :> Increment(Visible(p)[form_id[p]])) @@ @]
     ELSE UNCHANGED wcount
  /\ pc' = [pc EXCEPT ![p] = "sv_commit"]
  /\ UNCHANGED poolvars
  /\ PageOver
  /\ UNCHANGED << dbvars, next_id, clock, txn, now, form_id, init_i, wsubs,
                  sessvars, outcome, assigned, true_saves, failures >>

(* A statement of the counter step raises and the inner `except Exception` *)
(* prints the error; control continues at conn.commit() with the           *)
(* transaction aborted (database error) or the connection lost.            *)
save_submission_counter_except(p) ==
  /\ pc[p] \in {"sv_ensure", "sv_update"}
  /\ failures < MaxFailures
  /\ failures' = failures + 1
  /\ \E how \in {"aborted", "broken"} : txn' = [txn EXCEPT ![p] = how]
  /\ pc' = [pc EXCEPT ![p] = "sv_commit"]
  /\ UNCHANGED poolvars
  /\ PageOver
  /\ UNCHANGED << dbvars, next_id, clock, now, form_id, init_i, wcount, wsubs,
                  sessvars, outcome, assigned, true_saves >>

(* The connection is lost when conn.commit() is sent.                      *)
save_submission_commit_error(p) ==
  /\ pc[p] = "sv_commit"
  /\ txn[p] = "ok"
  /\ failures < MaxFailures
  /\ failures' = failures + 1
  /\ txn' = [txn EXCEPT ![p] = "broken"]
  /\ UNCHANGED poolvars
  /\ PageOver
  /\ UNCHANGED << dbvars, next_id, clock, pc, now, form_id, init_i, wcount, wsubs,
                  sessvars, outcome, assigned, true_saves >>

(* conn.commit(); return True -- display_survey then sets                  *)
(* submission_success.  On a lost connection the commit raises, the outer  *)
(* `except Exception` returns False and display_survey reports it.         *)
save_submission_commit(p) ==
  /\ pc[p] = "sv_commit"
  /\ form_counters' = CommittedCounters(p)
  /\ submissions' = CommittedSubmissions(p)
  /\ wcount' = [wcount EXCEPT ![p] = EmptyTable]
  /\ wsubs' = [wsubs EXCEPT ![p] = {}]
  /\ txn' = [txn EXCEPT ![p] = "ok"]
  /\ pc' = [pc EXCEPT ![p] = "idle"]
  /\ IF txn[p] = "broken"
     THEN /\ outcome' = [outcome EXCEPT ![p] = "False"]
          /\ UNCHANGED << submission_success, true_saves >>
     ELSE /\ outcome' = [outcome EXCEPT ![p] = "True"]
          /\ submission_success' = [submission_success EXCEPT ![p] = TRUE]
          /\ true_saves' = [true_saves EXCEPT ![form_id[p]] = @ + 1]
  /\ checked_out' = putconn(checked_out)
  /\ UNCHANGED others
  /\ PageOver
  /\ UNCHANGED << next_id, clock, now, form_id, init_i, current_form_id,
                  session_id, radio, unanswered, assigned, failures >>

(* ----- display_results_page / get_form_statistics ----- *)
(* SELECT form_id, submission_count FROM form_counters ORDER BY form_id;   *)
(* return {row['form_id']: row['submission_count'] for row in results}     *)
get_form_statistics ==
  [f \in DOMAIN form_counters |-> form_counters[f].submission_count]

(* ----- get_question_rankings / get_worst_performing_names ----- *)
(* The order of ORDER BY on the name column: the thirteen names in         *)
(* alphabetical order (the same under byte order and under a language      *)
(* collation, which both put "Givanthropy" before "Give Connects" before   *)
(* "Give-io" before "Givio Gives").                                        *)
NameOrder == <<
  "Causenex", "Donanthropy", "Donathropy", "Givanthropy", "Give Connects",
  "Give-io", "Givio Gives", "Humanitable", "Kinderfully", "Philanthri",
  "Philanthrifind", "Philanthrifound", "Tomatchin" >>
NameRank(name) == CHOOSE i \in 1..Len(NameOrder) : NameOrder[i] = name

(* The form -> names map written out in get_worst_performing_names and in  *)
(* the UNION ALL branches of its query.                                    *)
form_names == <<
  <<"Philanthrifind", "Give-io", "Donathropy", "Kinderfully">>,
  <<"Philanthrifound", "Causenex", "Givanthropy", "Tomatchin">>,
  <<"Philanthri", "Give Connects", "Donanthropy", "Humanitable">>,
  <<"Givio Gives", "Philanthrifound", "Givanthropy", "Humanitable">>,
  <<"Give Connects", "Philanthrifind", "Give-io", "Tomatchin">>,
  <<"Philanthri", "Givio Gives", "Kinderfully", "Causenex">> >>

(* column_name = question_<n>_answer of a submissions row                  *)
Column(s, question_num) == s.answers[QUESTIONS[question_num]]

(* all_exposures: one row per submission and per name of its form          *)
all_exposures == {<<s, i>> : s \in submissions, i \in 1..4}
ExposureName(e) == form_names[e[1].form_id][e[2]]

(* name_exposures with every name of the map, exposed or not.              *)
name_exposures_AllNames ==
  LET ae == all_exposures
  IN [name \in {form_names[f][i] : f \in Forms, i \in 1..4} |->
        Cardinality({e \in ae : ExposureName(e) = name})]
(* name_exposures: SELECT name, COUNT .. GROUP BY name                     *)
name_exposures ==
  LET ae == all_exposures
  IN [name \in {ExposureName(e) : e \in ae} |->
        Cardinality({e \in ae : ExposureName(e) = name})]

(* name_votes counting the picks of a name in all five answer columns.     *)
name_votes_AllColumns(question_num) ==
  LET picks == {<<s, n>> : s \in submissions, n \in 1..Len(QUESTIONS)}
  IN [name \in {Column(s, question_num) : s \in submissions} |->
        Cardinality({e \in picks : Column(e[1], e[2]) = name})]
(* name_votes: SELECT column AS name, COUNT .. GROUP BY column             *)
name_votes(question_num) ==
  [name \in {Column(s, question_num) : s \in submissions} |->
     Cardinality({s \in submissions : Column(s, question_num) = name})]

(* name_exposures ne LEFT JOIN name_votes nv ON ne.name = nv.name          *)
WorstRows(question_num) ==
  LET ne == name_exposures
      nv == name_votes(question_num)
      vote_count(name) == IF name \in DOMAIN nv THEN nv[name] ELSE 0
  IN {[name |-> name,
       exposure_count |-> ne[name],
       vote_count |-> vote_count(name),
       gap |-> ne[name] - vote_count(name)] : name \in DOMAIN ne}

(* ORDER BY gap ASC, ne.name                                               *)
WorstBefore_GapAscending(a, b) ==
  \/ a.gap < b.gap
  \/ a.gap = b.gap /\ NameRank(a.name) < NameRank(b.name)
(* ORDER BY gap DESC, ne.name                                              *)
WorstBefore(a, b) ==
  \/ a.gap > b.gap
  \/ a.gap = b.gap /\ NameRank(a.name) < NameRank(b.name)

(* .. LIMIT limit                                                          *)
RECURSIVE WorstLimit(_, _)
WorstLimit(rows, limit) ==
  IF limit = 0 \/ rows = {} THEN << >>
  ELSE LET first == CHOOSE r \in rows : \A o \in rows \ {r} : WorstBefore(r, o)
       IN << first >> \o WorstLimit(rows \ {first}, limit - 1)

get_worst_performing_names(question_num) == WorstLimit(WorstRows(question_num), 3)

(* SELECT column AS name, COUNT AS count FROM submissions GROUP BY column *)
TopRows(question_num) ==
  LET nv == name_votes(question_num)
  IN {[name |-> name, count |-> nv[name]] : name \in DOMAIN nv}

(* ORDER BY count DESC, column DESC                                        *)
TopBefore_NameDescending(a, b) ==
  \/ a.count > b.count
  \/ a.count = b.count /\ NameRank(a.name) > NameRank(b.name)
(* ORDER BY count DESC, column                                             *)
TopBefore(a, b) ==
  \/ a.count > b.count
  \/ a.count = b.count /\ NameRank(a.name) < NameRank(b.name)

RECURSIVE TopLimit(_, _)
TopLimit(rows, limit) ==
  IF limit = 0 \/ rows = {} THEN << >>
  ELSE LET first == CHOOSE r \in rows : \A o \in rows \ {r} : TopBefore(r, o)
       IN << first >> \o TopLimit(rows \ {first}, limit - 1)

(* rankings[f"q{question_num}"] = {"top_3": .., "bottom_3": ..}            *)
get_question_rankings ==
  [q \in QuestionIds |->
     LET question_num == CHOOSE i \in 1..Len(QUESTIONS) : QUESTIONS[i] = q
     IN [top_3 |-> TopLimit(TopRows(question_num), 3),
         bottom_3 |-> get_worst_performing_names(question_num)]]

(* One connection shared by all callers: the commit that ends a read would *)
(* commit the pending writes of every running call.                        *)
CommittedByRead_SharedConnection ==
  [form_counters |->
     [f \in (DOMAIN form_counters) \cup UNION {DOMAIN wcount[p] : p \in Procs} |->
        IF \E p \in Procs : f \in DOMAIN wcount[p]
        THEN wcount[CHOOSE p \in Procs : f \in DOMAIN wcount[p]][f]
        ELSE form_counters[f]],
   submissions |-> submissions \cup UNION {wsubs[p] : p \in Procs}]
(* The conn.commit() that get_connection runs when a read function         *)
(* returns: the read took a connection of its own from the pool, which     *)
(* holds no pending write, so the committed tables stay as they are.       *)
CommittedByRead ==
  [form_counters |-> form_counters, submissions |-> submissions]

(* The connections of the two reads.  get_form_statistics takes one and   *)
(* puts it back.  get_question_rankings takes one and, still holding it,   *)
(* calls get_worst_performing_names once per question, which takes and     *)
(* puts back a second one; then the first is put back.                     *)
RECURSIVE WorstConnections(_, _)
WorstConnections(n, calls) ==
  IF calls = 0 THEN n ELSE WorstConnections(putconn(getconn(n)), calls - 1)
StatisticsConnection(n) == putconn(getconn(n))
RankingsConnections(n) == putconn(WorstConnections(getconn(n), Len(QUESTIONS)))
RankingsPeak(n) == getconn(getconn(n))

(* The results page (?page=resultsz) is opened:                            *)
(* stats = get_form_statistics(); rankings = get_question_rankings().      *)
(* The page is one step: no write of another session falls between its     *)
(* queries.                                                                *)
display_results_page ==
  /\ RankingsPeak(checked_out) <= maxconn
  /\ stats' = get_form_statistics
  /\ rankings' = get_question_rankings
  /\ form_counters' = CommittedByRead.form_counters
  /\ submissions' = CommittedByRead.submissions
  /\ checked_out' = RankingsConnections(StatisticsConnection(checked_out))
  /\ UNCHANGED others
  /\ UNCHANGED << next_id, clock, pc, txn, now, form_id, init_i, wcount,
                  wsubs, sessvars, outcome, assigned, true_saves, failures >>

(* ----- calls that find the pool exhausted ----- *)
(* get_connection runs _pool.getconn() before its try block; with maxconn  *)
(* connections handed out getconn raises PoolError at once and the caller  *)
(* sees the exception.                                                     *)

(* Begin is pressed with the pool exhausted: the PoolError leaves          *)
(* get_least_submitted_form through its `with get_connection()` line,      *)
(* load_new_form reports it and no form is loaded.  (When the pool is      *)
(* already exhausted at the start of the run, init_database in main        *)
(* raises the same PoolError first and main reports it: again no form is   *)
(* loaded and an error is shown.)                                          *)
get_least_submitted_form_exhausted(p) ==
  /\ BeginOffered(p)
  /\ PoolExhausted
  /\ FormNotLoaded(p)
  /\ PageOver
  /\ UNCHANGED << dbvars, next_id, clock, pc, txn, now, form_id, init_i, wcount,
                  wsubs, poolvars, true_saves, failures >>

(* A complete form is submitted with the pool exhausted: the PoolError is  *)
(* caught by save_submission's outer `except Exception`, which returns     *)
(* False.                                                                  *)
save_submission_exhausted(p) ==
  /\ SurveyDisplayed(p)
  /\ PoolExhausted
  /\ \E answers \in AnswerInputs(current_form_id[p]) :
       /\ Unanswered(answers) = << >>
       /\ radio' = [radio EXCEPT ![p] = FormWidgets(answers)]
  /\ unanswered' = [unanswered EXCEPT ![p] = << >>]
  /\ outcome' = [outcome EXCEPT ![p] = "False"]
  /\ PageOver
  /\ UNCHANGED << dbvars, next_id, clock, pc, txn, now, form_id, init_i, wcount,
                  wsubs, current_form_id, submission_success, session_id,
                  poolvars, assigned, true_saves, failures >>

(* The results page is opened with fewer than two connections free.  With  *)
(* none free get_form_statistics raises and the page reports it; with one  *)
(* free the statistics are read.  get_question_rankings raises in both     *)
(* cases (at its own getconn, or at the one of                             *)
(* get_worst_performing_names) and the page reports it; every connection   *)
(* taken is put back.                                                      *)
display_results_page_exhausted ==
  /\ RankingsPeak(checked_out) > maxconn
  /\ stats' = IF PoolExhausted THEN EmptyTable ELSE get_form_statistics
  /\ rankings' = EmptyTable
  /\ checked_out' = IF PoolExhausted THEN checked_out
                    ELSE putconn(getconn(StatisticsConnection(checked_out)))
  /\ UNCHANGED others
  /\ UNCHANGED << dbvars, next_id, clock, pc, txn, now, form_id, init_i, wcount,
                  wsubs, sessvars, outcome, assigned, true_saves, failures >>

(* Callers outside Procs (other browser sessions served by the same        *)
(* process) enter and leave get_connection.                                *)
other_getconn ==
  /\ ~ PoolExhausted
  /\ checked_out' = getconn(checked_out)
  /\ others' = others + 1
  /\ PageOver
  /\ UNCHANGED << dbvars, next_id, clock, pc, txn, now, form_id, init_i, wcount,
                  wsubs, sessvars, outcome, assigned, true_saves, failures >>

other_putconn ==
  /\ others > 0
  /\ checked_out' = putconn(checked_out)
  /\ others' = others - 1
  /\ PageOver
  /\ UNCHANGED << dbvars, next_id, clock, pc, txn, now, form_id, init_i, wcount,
                  wsubs, sessvars, outcome, assigned, true_saves, failures >>

(* ----- the system ----- *)
Next ==
  \/ init_database_tables
  \/ display_results_page
  \/ \E p \in Procs :
       \/ get_least_submitted_form(p)
       \/ get_least_update(p)
       \/ get_least_commit(p)
       \/ get_least_raise(p)
       \/ get_least_init_insert(p)
       \/ get_least_init_commit(p)
       \/ get_least_init_except(p)
       \/ display_survey_submit(p)
       \/ save_submission_raise(p)
       \/ save_submission_ensure(p)
       \/ save_submission_update(p)
       \/ save_submission_counter_except(p)
       \/ save_submission_commit_error(p)
       \/ save_submission_commit(p)

Spec == Init /\ [][Next]_vars

(* Sequential allocation only: one get_least_submitted_form call at a time *)
(* and no submission, from the same initial state.                         *)
NextAlloc ==
  \/ init_database_tables
  \/ \E p \in Procs :
       \/ get_least_submitted_form(p) /\ Quiet
       \/ get_least_update(p)
       \/ get_least_commit(p)
       \/ get_least_init_insert(p)
       \/ get_least_init_commit(p)

AllocSpec == Init /\ [][NextAlloc]_vars

(* The sessions of Procs one operation at a time and without database      *)
(* failures, sharing the pool with callers outside Procs that may hold     *)
(* every connection of it.                                                 *)
NextPool ==
  \/ other_getconn
  \/ other_putconn
  \/ display_results_page
  \/ display_results_page_exhausted
  \/ \E p \in Procs :
       \/ get_least_submitted_form(p) /\ Quiet
       \/ get_least_submitted_form_exhausted(p) /\ Quiet
       \/ get_least_update(p)
       \/ get_least_commit(p)
       \/ get_least_init_insert(p)
       \/ get_least_init_commit(p)
       \/ display_survey_submit(p) /\ Quiet
       \/ save_submission_exhausted(p) /\ Quiet
       \/ save_submission_ensure(p)
       \/ save_submission_update(p)
       \/ save_submission_commit(p)

PoolSpec == Init /\ [][NextPool]_vars

(* ----- the rankings as functions of the submissions table ----- *)
(* The answers of a stored row for form f: question number n holds the     *)
(* form's name at position ((k + n) mod 4) + 1, one of the form's radio    *)
(* options.                                                                *)
RankAnswers(f, k) ==
  [q \in QuestionIds |->
     LET n == CHOOSE i \in 1..Len(QUESTIONS) : QUESTIONS[i] = q
     IN get_form_names(f)[((k + n) % 4) + 1]]

(* Tables of up to MaxRows stored rows: non-decreasing sequences of row    *)
(* kinds c (form c \div NumRotations + 1, rotation c % NumRotations).      *)
KindForm(c) == (c \div NumRotations) + 1
RECURSIVE RankKinds(_, _)
RankKinds(n, lo) ==
  IF n = 0 THEN {<< >>}
  ELSE UNION {{<< c >> \o s : s \in RankKinds(n - 1, c)} :
                c \in lo..(NumRotations * NumForms - 1)}
RankTable(kinds) ==
  {[id |-> i, form_id |-> KindForm(kinds[i]), session_id |-> 1,
    answers |-> RankAnswers(KindForm(kinds[i]), kinds[i] % NumRotations)] :
     i \in 1..Len(kinds)}

(* The state after the rows of a table were saved without failures: every  *)
(* counter agrees with the rows, all sessions are back at the start.       *)
RankInit ==
  \E n \in 0..MaxRows : \E kinds \in RankKinds(n, 0) :
    /\ submissions = RankTable(kinds)
    /\ form_counters =
         [f \in Forms |->
            LET c == Cardinality({i \in 1..n : KindForm(kinds[i]) = f})
            IN [submission_count |-> c,
                last_assigned |-> IF c = 0 THEN NULL ELSE Epoch + 1]]
    /\ next_id = n + 1
    /\ clock = MaxClock + 1
    /\ pc = [p \in Procs |-> "idle"]
    /\ txn = [p \in Procs |-> "ok"]
    /\ now = [p \in Procs |-> Epoch]
    /\ form_id = [p \in Procs |-> None]
    /\ init_i = [p \in Procs |-> 1]
    /\ wcount = [p \in Procs |-> EmptyTable]
    /\ wsubs = [p \in Procs |-> {}]
    /\ current_form_id = [p \in Procs |-> None]
    /\ submission_success = [p \in Procs |-> FALSE]
    /\ session_id = [p \in Procs |-> p]
    /\ radio = [p \in Procs |-> NoAnswers]
    /\ unanswered = [p \in Procs |-> << >>]
    /\ outcome = [p \in Procs |-> "none"]
    /\ stats = EmptyTable
    /\ rankings = EmptyTable
    /\ checked_out = 0
    /\ others = 0
    /\ assigned = << >>
    /\ true_saves = [f \in Forms |-> 0]
    /\ failures = 0

RankNext == display_results_page

RankSpec == RankInit /\ [][RankNext]_vars

(* ======================= properties ======================= *)
(* The definitions of the report's quantities, from the configuration.    *)
Names == {FORMS[f][i] : f \in Forms, i \in 1..4}
ExposureCount(name) ==
  Cardinality({s \in submissions : \E i \in 1..4 : FORMS[s.form_id][i] = name})
VoteCount(name, q) == Cardinality({s \in submissions : s.answers[q] = name})
Gap(name, q) == ExposureCount(name) - VoteCount(name, q)
Exposed == {name \in Names : ExposureCount(name) > 0}
Voted(q) == {name \in Names : VoteCount(name, q) > 0}
Alphabetical(a, b) == NameRank(a) < NameRank(b)
WorseGap(a, b, q) ==
  \/ Gap(a, q) > Gap(b, q)
  \/ Gap(a, q) = Gap(b, q) /\ Alphabetical(a, b)
MoreVotes(a, b, q) ==
  \/ VoteCount(a, q) > VoteCount(b, q)
  \/ VoteCount(a, q) = VoteCount(b, q) /\ Alphabetical(a, b)
Min(a, b) == IF a <= b THEN a ELSE b
NamesOf(list) == {list[i].name : i \in 1..Len(list)}
PageShown == rankings # EmptyTable

NumRows(f) == Cardinality(RowsOf(f))
SavePcs == {"sv_ensure", "sv_update", "sv_commit"}
OlderOrSame(a, b) == a = NULL \/ (b # NULL /\ a <= b)
Times(f) == Cardinality({i \in 1..Len(assigned) : assigned[i] = f})
NeverAssigned == {f \in DOMAIN form_counters : form_counters[f] = NewCounterRow}
MinOf(S) == CHOOSE x \in S : \A y \in S : x <= y

(* C1: in every committed state, for every form the submission_count of    *)
(* its counter row equals the number of submissions rows of that form (a   *)
(* form without a counter row has no submissions), whatever allocations,   *)
(* saves, failed saves and failed counter steps have happened.             *)
C1_CountEqualsRows == \A f \in Forms : CountOf(f) = NumRows(f)

(* A save of form f was committed and another save of f went through the   *)
(* counter step's except and returned True.                                *)
C1_Witness == \E f \in Forms : CountOf(f) >= 1 /\ true_saves[f] > CountOf(f)

(* C2: a save_submission that returns True has committed exactly one new   *)
(* submissions row with the given form_id, session_id and answers, and has *)
(* raised the form's submission_count by exactly 1 -- also when the        *)
(* counter row did not exist and when a counter statement raised.          *)
C2_TrueMeansStored ==
  [][\A p \in Procs :
       (pc[p] = "sv_commit" /\ outcome'[p] = "True") =>
         /\ \E r \in submissions' \ submissions :
              /\ submissions' = submissions \cup {r}
              /\ r.form_id = form_id[p]
              /\ r.session_id = session_id[p]
              /\ r.answers = radio[p]
         /\ CountOf(form_id[p])' = CountOf(form_id[p]) + 1]_vars

(* C3: the new submissions row and the counter increment become visible    *)
(* together: no step changes the committed number of rows of a form        *)
(* without changing its committed count or the reverse, and the map the    *)
(* results page reads holds, for every form, the number of rows committed  *)
(* at the moment of the read.                                              *)
C3_VisibleTogether ==
  [][/\ \A f \in Forms : (NumRows(f)' # NumRows(f)) <=> (CountOf(f)' # CountOf(f))
     /\ stats' # stats => \A f \in DOMAIN stats' : stats'[f] = NumRows(f)]_vars

(* A save holds its uncommitted row and increment while the results page   *)
(* shows the count from before it.                                         *)
C3_Witness ==
  \E p \in Procs :
    /\ pc[p] = "sv_commit" /\ txn[p] = "ok" /\ wsubs[p] # {}
    /\ form_id[p] \in DOMAIN wcount[p] /\ form_id[p] \in DOMAIN stats
    /\ wcount[p][form_id[p]].submission_count = stats[form_id[p]] + 1
    /\ stats[form_id[p]] = NumRows(form_id[p])

(* C4: once the concurrent save_submission calls have all returned, the    *)
(* form's submission_count is its initial value (0) plus the number of     *)
(* calls that returned True.                                               *)
C4_NoLostUpdate ==
  (\A p \in Procs : pc[p] \notin SavePcs) => \A f \in Forms : CountOf(f) = true_saves[f]

C6_ReturnSetsLastAssigned ==
  [][\A p \in Procs :
       (outcome[p] = "none" /\ outcome'[p] = "returned") =>
         /\ current_form_id'[p] \in DOMAIN form_counters'
         /\ form_counters'[current_form_id'[p]].last_assigned = now[p]]_vars

(* C7: over sequential allocations without submissions, no form is         *)
(* returned more than once more often than another, and every tie on the   *)
(* count goes to the least recently assigned form.                         *)
C7_RoundRobin ==
  /\ [](\A f, g \in Forms : Times(f) - Times(g) <= 1)
  /\ [][\A p \in Procs :
          (pc[p] = "idle" /\ pc'[p] = "gl_update") =>
            \A g \in DOMAIN form_counters :
              form_counters[g].submission_count = form_counters[form_id'[p]].submission_count
                => OlderOrSame(form_counters[form_id'[p]].last_assigned,
                               form_counters[g].last_assigned)]_vars

(* C8: from a state where several forms have count 0 and were never        *)
(* assigned, the call returns the lowest such form id, and the call after  *)
(* an allocation returns another form than that allocation did.            *)
C8_DeterministicTie ==
  [][\A p \in Procs :
       (pc[p] = "idle" /\ pc'[p] = "gl_update") =>
         /\ Cardinality(NeverAssigned) >= 2 => form_id'[p] = MinOf(NeverAssigned)
         /\ (/\ Len(assigned) > 0
             /\ Cardinality(DOMAIN form_counters) >= 2
             /\ form_counters[assigned[Len(assigned)]].last_assigned # NULL)
              => form_id'[p] # assigned[Len(assigned)]]_vars

(* C9: a call that finds the counter table empty and returns, returns form *)
(* 1 and leaves a row for each of the forms 1..6 with submission_count 0.  *)
C9_LazyInit ==
  [][\A p \in Procs :
       (pc[p] \in {"gl_init", "gl_init_commit"} /\ outcome'[p] = "returned") =>
         /\ current_form_id'[p] = 1
         /\ \A f \in Forms : /\ f \in DOMAIN form_counters'
                             /\ form_counters'[f].submission_count = 0]_vars

(* C10: a get_least_submitted_form call during which storage failed ends   *)
(* by raising, and load_new_form leaves current_form_id as it was.         *)
C10_FailureRaises ==
  [][\A p \in Procs :
       (/\ failures' > failures
        /\ outcome'[p] # outcome[p]
        /\ outcome'[p] \in {"raised", "returned"}) =>
         /\ outcome'[p] = "raised"
         /\ current_form_id'[p] = current_form_id[p]]_vars

(* The step on which a save_submission call of session p ends: the commit  *)
(* step, or the failure of the connection / the INSERT INTO submissions.   *)
SaveReturns(p) ==
  \/ pc[p] = "sv_commit" /\ pc'[p] = "idle"
  \/ /\ SurveyDisplayed(p)
     /\ failures' > failures
     /\ outcome'[p] = "False"
     /\ unanswered'[p] = << >>
     /\ radio'[p] # NoAnswers

C12_CounterFailureKeepsRow ==
  [][\A p \in Procs :
       (pc[p] = "sv_commit" /\ txn[p] = "aborted" /\ pc'[p] = "idle") =>
         /\ outcome'[p] = "True"
         /\ \E r \in submissions' \ submissions :
              /\ submissions' = submissions \cup {r}
              /\ r.form_id = form_id[p]
              /\ r.session_id = session_id[p]
         /\ CountOf(form_id[p])' = CountOf(form_id[p])
    ]_vars

(* C13: in every reachable state the map get_form_statistics returns       *)
(* contains every configured form id 1..6, each with a count >= 0.         *)
C13_EveryFormListed ==
  \A f \in Forms :
    /\ f \in DOMAIN get_form_statistics
    /\ get_form_statistics[f] >= 0

(* C14: for every question the bottom_3 list holds the (at most 3) exposed *)
(* names with the largest gap = exposure_count - vote_count, in order of   *)
(* gap descending with ties alphabetical; each entry carries its counts,   *)
(* and a name with exposure_count 0 is never listed.                       *)
C14_BottomThreeByGap ==
  PageShown =>
    \A q \in QuestionIds :
      LET b == rankings[q].bottom_3 IN
      /\ Len(b) = Min(3, Cardinality(Exposed))
      /\ \A i \in 1..Len(b) :
           /\ b[i].name \in Exposed
           /\ b[i].exposure_count = ExposureCount(b[i].name)
           /\ b[i].vote_count = VoteCount(b[i].name, q)
           /\ b[i].gap = Gap(b[i].name, q)
      /\ \A i, j \in 1..Len(b) : i < j => WorseGap(b[i].name, b[j].name, q)
      /\ \A name \in Exposed \ NamesOf(b) :
           \A i \in 1..Len(b) : WorseGap(b[i].name, name, q)
(* A bottom_3 list with a strictly larger gap first, then a tie decided by *)
(* name, a voted name in the list, and exposed names left out.             *)
C14_Witness ==
  /\ PageShown
  /\ \E q \in QuestionIds :
       LET b == rankings[q].bottom_3 IN
       /\ Len(b) = 3
       /\ b[1].gap > b[2].gap
       /\ b[2].gap = b[3].gap
       /\ b[3].vote_count > 0
       /\ Cardinality(Exposed) > 3
       /\ \E name \in Exposed \ NamesOf(b) : Gap(name, q) = b[3].gap

C16_EmptyTableEmptyRankings ==
  (PageShown /\ submissions = {}) =>
    /\ DOMAIN rankings = QuestionIds
    /\ \A q \in QuestionIds :
         rankings[q].top_3 = << >> /\ rankings[q].bottom_3 = << >>
(* The rankings were read while the table was empty and a row of a running *)
(* save was still uncommitted.                                             *)
C16_Witness ==
  /\ PageShown
  /\ submissions = {}
  /\ \E p \in Procs : wsubs[p] # {}

C18_IncompleteSubmitRejected ==
  [][\A p \in Procs :
       (SurveyDisplayed(p) /\ radio'[p] # radio[p]
          /\ \E q \in QuestionIds : radio'[p][q] = "") =>
         /\ pc'[p] = "idle"
         /\ outcome'[p] = outcome[p]
         /\ form_counters' = form_counters
         /\ submissions' = submissions
         /\ wcount' = wcount
         /\ wsubs' = wsubs
         /\ next_id' = next_id
         /\ unanswered'[p] # << >>
         /\ \A i \in 1..Len(QUESTIONS) :
              (radio'[p][QUESTIONS[i]] = "") <=>
                (\E k \in 1..Len(unanswered'[p]) : unanswered'[p][k] = i)
         /\ \A k \in 1..(Len(unanswered'[p]) - 1) :
              unanswered'[p][k] < unanswered'[p][k + 1]
    ]_vars
(* Two questions were reported missing while the tables held stored data   *)
(* and nothing was written for the rejected submit.                        *)
C18_Witness ==
  \E p \in Procs :
    /\ pc[p] = "idle"
    /\ unanswered[p] = << 1, 5 >>
    /\ radio[p]["q3"] # ""
    /\ submissions # {}
    /\ wsubs[p] = {}

(* The pcs of a running get_least_submitted_form call.                     *)
AllocPcs == {"gl_update", "gl_commit", "gl_init", "gl_init_commit"}

(* C19: each form's committed submission_count never decreases and changes *)
(* only by +1, in a step in which a save_submission call for that form     *)
(* returns True; no counter row and no submissions row is deleted or       *)
(* modified after its creation, except that the allocator's commit updates *)
(* last_assigned.                                                          *)
C19_CountsOnlyGrowBySaves ==
  [][/\ \A f \in Forms :
          /\ CountOf(f)' \in {CountOf(f), CountOf(f) + 1}
          /\ CountOf(f)' = CountOf(f) + 1 =>
               \E p \in Procs :
                 pc[p] = "sv_commit" /\ form_id[p] = f /\ outcome'[p] = "True"
     /\ \A f \in DOMAIN form_counters :
          /\ f \in DOMAIN form_counters'
          /\ form_counters'[f].last_assigned # form_counters[f].last_assigned =>
               \E p \in Procs :
                 /\ pc[p] = "gl_commit" /\ form_id[p] = f
                 /\ form_counters'[f].last_assigned = now[p]
     /\ submissions \subseteq submissions'
    ]_vars
(* A form was assigned twice and saved once: its counter row was created,  *)
(* incremented and given a later last_assigned.                            *)
C19_Witness ==
  \E f \in Forms :
    /\ Quiet
    /\ assigned = << f, f >>
    /\ CountOf(f) = 1
    /\ NumRows(f) = 1
    /\ form_counters[f].last_assigned = 2

(* C20: no step of get_least_submitted_form changes a submission_count or  *)
(* the submissions table (committed or pending); concurrent calls may      *)
(* return the same form, and under every interleaving of allocator calls   *)
(* and saves each counter equals the number of stored rows of its form.    *)
C20_AllocatorLeavesCounts ==
  /\ [][\A p \in Procs :
          ((pc[p] \in AllocPcs \/ pc'[p] \in AllocPcs)
             /\ (pc'[p] # pc[p] \/ init_i'[p] # init_i[p])) =>
            /\ \A f \in Forms : CountOf(f)' = CountOf(f)
            /\ \A f \in DOMAIN wcount'[p] : wcount'[p][f].submission_count = CountOf(f)
            /\ submissions' = submissions
            /\ wsubs' = wsubs
       ]_vars
  /\ [](\A f \in Forms : CountOf(f) = NumRows(f))
(* Two concurrent calls returned the same form and both sessions saved it. *)
C20_Witness ==
  \E p, q \in Procs :
    /\ p # q
    /\ Quiet
    /\ current_form_id[p] # None
    /\ current_form_id[p] = current_form_id[q]
    /\ submission_success[p] /\ submission_success[q]
    /\ CountOf(current_form_id[p]) = 2
    /\ NumRows(current_form_id[p]) = 2

RECURSIVE SumOver(_, _)
SumOver(f, S) ==
  IF S = {} THEN 0
  ELSE LET x == CHOOSE y \in S : TRUE IN f[x] + SumOver(f, S \ {x})

(* The session state machine of main(): a save returns True only in a      *)
(* session whose survey is displayed, sets submission_success, and only a  *)
(* form load resets submission_success; no save starts while it is set.    *)
OneTruePerLoad ==
  [][\A p \in Procs :
       /\ (outcome'[p] = "True" /\ pc[p] = "sv_commit") =>
            (~ submission_success[p] /\ submission_success'[p])
       /\ (submission_success[p] /\ ~ submission_success'[p]) =>
            (outcome'[p] = "returned" /\ Len(assigned') = Len(assigned) + 1)
       /\ (pc'[p] \in SavePcs /\ pc[p] = "idle") => ~ submission_success[p]
       /\ (pc[p] \in SavePcs) => ~ submission_success[p]
    ]_vars

(* C21: each form load leads to at most one save_submission that returns   *)
(* True (the survey is not displayed again until a new load resets         *)
(* submission_success), so every completed survey has created exactly one  *)
(* submissions row.                                                        *)
C21_OneSubmissionPerLoad ==
  /\ OneTruePerLoad
  /\ [](SumOver(true_saves, Forms) <= Len(assigned))
  /\ [](\A f \in Forms : NumRows(f) = true_saves[f])

(* C22: when save_submission returns False the session keeps its form and  *)
(* its answers: current_form_id is unchanged, submission_success stays     *)
(* False, no form is allocated, the Begin button is not offered, and the   *)
(* survey is displayed with the same complete answers, ready to be         *)
(* submitted again.                                                        *)
C22_FailedSaveKeepsSession ==
  [][\A p \in Procs :
       (SaveReturns(p) /\ outcome'[p] = "False") =>
         /\ current_form_id'[p] = current_form_id[p]
         /\ current_form_id'[p] # None
         /\ ~ submission_success'[p]
         /\ assigned' = assigned
         /\ pc'[p] = "idle"
         /\ radio'[p] \in AnswerInputs(current_form_id'[p])
         /\ Unanswered(radio'[p]) = << >>
         /\ pc[p] = "sv_commit" => radio'[p] = radio[p]
    ]_vars
(* After one load, a save that had inserted its row returned False and the *)
(* same answers were submitted again and stored.                           *)
C22_Witness ==
  \E p \in Procs :
    /\ Len(assigned) = 1
    /\ failures = 1
    /\ next_id = 3
    /\ outcome[p] = "True"
    /\ \E s \in submissions :
         /\ s.id = 2
         /\ s.session_id = session_id[p]
         /\ s.form_id = current_form_id[p]
         /\ s.answers = radio[p]

(* The operations of Procs in progress: each holds one connection.         *)
InProgress == Cardinality({p \in Procs : pc[p] # "idle"})

(* C23: with all maxconn connections handed out, a further get_connection  *)
(* waits for one to be put back instead of failing at once: no step taken  *)
(* with the pool exhausted ends an operation of a session in failure (the  *)
(* specification it is checked under has no database failure).            *)
C23_ExhaustedPoolWaits ==
  [][PoolExhausted =>
       \A p \in Procs :
         outcome'[p] # outcome[p] => outcome'[p] \notin {"raised", "False"}
    ]_vars

AnswersAreCandidates ==
  \A s \in submissions : \A n \in 1..Len(QUESTIONS) :
    \E i \in 1..4 : Column(s, n) = form_names[s.form_id][i]

(* C25: when every stored answer is a candidate name of its row's form,    *)
(* every row of the worst-names query has vote_count <= exposure_count     *)
(* for every question, and every gap listed in a bottom_3 of the results   *)
(* page is >= 0.                                                           *)
C25_GapNeverNegative ==
  AnswersAreCandidates =>
    /\ \A n \in 1..Len(QUESTIONS) : \A r \in WorstRows(n) :
         /\ r.vote_count <= r.exposure_count
         /\ r.gap >= 0
    /\ PageShown =>
         \A q \in QuestionIds : \A i \in DOMAIN rankings[q].bottom_3 :
           /\ rankings[q].bottom_3[i].vote_count
                <= rankings[q].bottom_3[i].exposure_count
           /\ rankings[q].bottom_3[i].gap >= 0

(* The page is shown for a table in which a name shown to two respondents  *)
(* was picked by both for some question (vote_count = exposure_count = 2)  *)
(* and the bottom_3 of that question has three entries.                    *)
C25_Witness ==
  /\ PageShown
  /\ AnswersAreCandidates
  /\ \E n \in 1..Len(QUESTIONS) :
       /\ \E r \in WorstRows(n) : r.vote_count = 2 /\ r.exposure_count = 2
       /\ Len(rankings[QUESTIONS[n]].bottom_3) = 3
====
